---- MODULE Spec2Model ----
(***************************************************************************)
(* A model of yadg's EC-Lab .mpt extractor (extractors/eclab/mpt.py), its  *)
(* column table (extractors/eclab/common/mpt_columns.py) and the Fusion    *)
(* zip extractor's tree merge (extractors/fusion/zip.py).                  *)
(*                                                                         *)
(* Text read from a file is a sequence of one-character strings, so that   *)
(* slicing, stripping and numeric parsing are computed and not assumed.   *)
(* Python values are tagged records: None, int, float, str, +/-inf.       *)
(* A Python float is carried by an integer: the pools below hold          *)
(* integer-valued decimals only, so every sum and difference is exact.    *)
(***************************************************************************)
EXTENDS Integers, Sequences, FiniteSets, TLC

VARIABLES
    pc,               \* position in extract / process_header / the zip extract
    err,              \* the exception that ended the call, "" while none
    nb_header_lines,  \* mpt.py:262
    header,           \* the header lines, as blank-line-delimited sections
    mtime,            \* the file's modification time (never read by mpt.py)
    hres,             \* what process_header returned or raised
    tried,            \* history: the formats handed to str_to_uts, in order
    start_time, fulldate, Eranges, Iranges, ctrls, settings, params,
    colline, names, columns, units, line, allvals, allmeta,
    ds,               \* the Dataset being returned by extract
    archive,          \* zip.py: member name -> what the member holds
    tempdir,          \* whether the temporary directory exists
    filenames,        \* sorted(filenames), zip.py:67-68
    dt_list,          \* the trees parsed so far
    dt,               \* the accumulator of reduce(merge_datatrees, dt_list)
    nmerged,          \* how many elements of dt_list are folded into dt
    args,             \* merge_datatrees: the operands as they were at the call
    heap,             \* the operand objects dt1 and dt2 as they are now
    ret,              \* what merge_datatrees returned, None before and on raise
    tolcase,          \* a value with its column's and the global tolerances
    sigma,            \* the sigma computed for tolcase
    folder,           \* schema_from_preset: the folder argument
    preset,           \* the preset as it was passed in
    schema,           \* the preset object as it is now
    nsteps            \* how many of its steps the loop has patched

mptvars == <<nb_header_lines, header, mtime, start_time, fulldate, Eranges,
             Iranges, ctrls, settings, params, colline, names, columns, units, line,
             allvals, allmeta, ds>>
hdrvars == <<hres, tried>>
zipvars == <<archive, tempdir, filenames, dt_list, dt, nmerged>>
mergevars == <<args, heap, ret>>
auxvars == <<tolcase, sigma, folder, preset, schema, nsteps>>
vars == <<pc, err, mptvars, hdrvars, zipvars, mergevars, auxvars>>

---------------------------------------------------------------------------
(* Bounds of the model.                                                    *)
MaxCols == 2      \* labels on the column-name line
MaxRows == 2      \* data lines of a file
MaxFields == 3    \* 20-character fields of a settings parameter line
MaxMembers == 2   \* fusion-data members of an archive

---------------------------------------------------------------------------
(* Python values.                                                          *)
None == [t |-> "none"]
PyInt(n) == [t |-> "int", v |-> n]
PyFloat(n) == [t |-> "float", v |-> n]
PyStr(s) == [t |-> "str", v |-> s]
PosInf == [t |-> "inf"]
NegInf == [t |-> "-inf"]
NoUnit == [t |-> "none"]
Unit(u) == [t |-> "unit", v |-> u]

Min(a, b) == IF a < b THEN a ELSE b

\* Python's list[i]: negative indexes count from the end.
InRange(list, i) == -Len(list) <= i /\ i < Len(list)
Index(list, i) == IF i >= 0 THEN list[i + 1] ELSE list[Len(list) + i + 1]

\* Python's s[a:b] for 0 <= a <= b.
Slice(s, a, b) == SubSeq(s, a + 1, Min(b, Len(s)))

\* list[:-1]
ButLast(s) == SubSeq(s, 1, Len(s) - 1)

---------------------------------------------------------------------------
(* str.strip and babel's parse_decimal, on character sequences.           *)
Digits == {"0", "1", "2", "3", "4", "5", "6", "7", "8", "9"}
Blank == {" "}

RECURSIVE LStrip(_)
LStrip(s) == IF s # <<>> /\ s[1] \in Blank THEN LStrip(Tail(s)) ELSE s

RECURSIVE RStrip(_)
RStrip(s) ==
    IF s # <<>> /\ s[Len(s)] \in Blank THEN RStrip(ButLast(s)) ELSE s

Strip(s) == RStrip(LStrip(s))

DigitVal(c) ==
    CASE c = "0" -> 0 [] c = "1" -> 1 [] c = "2" -> 2 [] c = "3" -> 3
      [] c = "4" -> 4 [] c = "5" -> 5 [] c = "6" -> 6 [] c = "7" -> 7
      [] c = "8" -> 8 [] c = "9" -> 9

RECURSIVE ToNat(_)
ToNat(s) == IF s = <<>> THEN 0 ELSE 10 * ToNat(ButLast(s)) + DigitVal(s[Len(s)])

Unsigned(s) == IF s # <<>> /\ s[1] = "-" THEN Tail(s) ELSE s

\* decimal.Decimal accepts surrounding blanks and a sign; of its further
\* forms (fractions, exponents, Infinity) none occurs in the pools below.
IsDecimal(s) ==
    LET body == Unsigned(Strip(s))
    IN  body # <<>> /\ \A i \in 1..Len(body) : body[i] \in Digits

\* [ok |-> TRUE, n |-> the number], or ok = FALSE for NumberFormatError,
\* which is a ValueError.
parse_decimal(s) ==
    IF IsDecimal(s)
    THEN LET t == Strip(s)
         IN  [ok |-> TRUE,
              n |-> IF t[1] = "-" THEN 0 - ToNat(Tail(t)) ELSE ToNat(t)]
    ELSE [ok |-> FALSE, n |-> 0]

---------------------------------------------------------------------------
(* mpt_columns.py: label -> (canonical name, unit or None). Letters       *)
(* outside ASCII are spelled out: Ohm, u (micro), . (middle dot), ^-2.     *)
column_units ==
    "\"Ri\"/Ohm" :> <<"'Ri'", Unit("Ohm")>> @@
    "Im(C)/nF" :> <<"Im(C)", Unit("nF")>> @@
    "Im(Conductivity)/mS/cm" :> <<"Im(Conductivity)", Unit("mS/cm")>> @@
    "Im(M)" :> <<"Im(M)", Unit("")>> @@
    "Im(Permittivity)" :> <<"Im(Permittivity)", Unit("")>> @@
    "Im(Resistivity)/Ohm.cm" :> <<"Im(Resistivity)", Unit("Ohm.cm")>> @@
    "-Im(Z)/Ohm" :> <<"-Im(Z)", Unit("Ohm")>> @@
    "-Im(Zce)/Ohm" :> <<"-Im(Zce)", Unit("Ohm")>> @@
    "-Im(Zwe-ce)/Ohm" :> <<"-Im(Zwe-ce)", Unit("Ohm")>> @@
    "(Q-Qo)/C" :> <<"(Q-Qo)", Unit("C")>> @@
    "(Q-Qo)/mA.h" :> <<"(Q-Qo)", Unit("mA.h")>> @@
    "<Ece>/V" :> <<"<Ece>", Unit("V")>> @@
    "<Ewe>/V" :> <<"<Ewe>", Unit("V")>> @@
    "<I>/mA" :> <<"<I>", Unit("mA")>> @@
    "|C|/nF" :> <<"|C|", Unit("nF")>> @@
    "|Conductivity|/mS/cm" :> <<"|Conductivity|", Unit("mS/cm")>> @@
    "|Ece|/V" :> <<"|Ece|", Unit("V")>> @@
    "|Energy|/W.h" :> <<"|Energy|", Unit("W.h")>> @@
    "|Ewe|/V" :> <<"|Ewe|", Unit("V")>> @@
    "|I|/A" :> <<"|I|", Unit("A")>> @@
    "|M|" :> <<"|M|", Unit("")>> @@
    "|Permittivity|" :> <<"|Permittivity|", Unit("")>> @@
    "|Resistivity|/Ohm.cm" :> <<"|Resistivity|", Unit("Ohm.cm")>> @@
    "|Y|/Ohm-1" :> <<"|Y|", Unit("S")>> @@
    "|Z|/Ohm" :> <<"|Z|", Unit("Ohm")>> @@
    "|Zce|/Ohm" :> <<"|Zce|", Unit("Ohm")>> @@
    "|Zwe-ce|/Ohm" :> <<"|Zwe-ce|", Unit("Ohm")>> @@
    "Analog IN 1/V" :> <<"Analog IN 1", Unit("V")>> @@
    "Analog IN 2/V" :> <<"Analog IN 2", Unit("V")>> @@
    "Capacitance charge/uF" :> <<"Capacitance charge", Unit("uF")>> @@
    "Capacitance discharge/uF" :> <<"Capacitance discharge", Unit("uF")>> @@
    "Capacity/mA.h" :> <<"Capacity", Unit("mA.h")>> @@
    "charge time/s" :> <<"charge time", Unit("s")>> @@
    "Conductivity/S.cm-1" :> <<"Conductivity", Unit("S/cm")>> @@
    "control changes" :> <<"control changes", NoUnit>> @@
    "control/mA" :> <<"control_I", Unit("mA")>> @@
    "control/V" :> <<"control_V", Unit("V")>> @@
    "control/V/mA" :> <<"control_VI", Unit("mA")>> @@
    "counter inc." :> <<"counter inc.", NoUnit>> @@
    "Cp-2/uF-2" :> <<"Cp^-2", Unit("uF^-2")>> @@
    "Cp/uF" :> <<"Cp", Unit("uF")>> @@
    "Cs-2/uF-2" :> <<"Cs^-2", Unit("uF^-2")>> @@
    "Cs/uF" :> <<"Cs", Unit("uF")>> @@
    "cycle number" :> <<"cycle number", NoUnit>> @@
    "cycle time/s" :> <<"cycle time", Unit("s")>> @@
    "d(Q-Qo)/dE/mA.h/V" :> <<"d(Q-Qo)/dE", Unit("mA.h/V")>> @@
    "dI/dt/mA/s" :> <<"dI/dt", Unit("mA/s")>> @@
    "discharge time/s" :> <<"discharge time", Unit("s")>> @@
    "dQ/C" :> <<"dQ", Unit("C")>> @@
    "dq/mA.h" :> <<"dq", Unit("mA.h")>> @@
    "dQ/mA.h" :> <<"dQ", Unit("mA.h")>> @@
    "Ece/V" :> <<"Ece", Unit("V")>> @@
    "Ecell/V" :> <<"Ecell", Unit("V")>> @@
    "Efficiency/%" :> <<"Efficiency", Unit("%")>> @@
    "Energy charge/W.h" :> <<"Energy charge", Unit("W.h")>> @@
    "Energy discharge/W.h" :> <<"Energy discharge", Unit("W.h")>> @@
    "Energy/W.h" :> <<"Energy", Unit("W.h")>> @@
    "error" :> <<"error", NoUnit>> @@
    "Ewe-Ece/V" :> <<"Ewe-Ece", Unit("V")>> @@
    "Ewe/V" :> <<"Ewe", Unit("V")>> @@
    "freq/Hz" :> <<"freq", Unit("Hz")>> @@
    "half cycle" :> <<"half cycle", NoUnit>> @@
    "I Range" :> <<"I Range", NoUnit>> @@
    "I/mA" :> <<"I", Unit("mA")>> @@
    "Im(Y)/Ohm-1" :> <<"Im(Y)", Unit("S")>> @@
    "Loss Angle(Delta)/deg" :> <<"Loss Angle(Delta)", Unit("deg")>> @@
    "mode" :> <<"mode", NoUnit>> @@
    "Ns changes" :> <<"Ns changes", NoUnit>> @@
    "Ns" :> <<"Ns", NoUnit>> @@
    "NSD Ewe/%" :> <<"NSD Ewe", Unit("%")>> @@
    "NSD I/%" :> <<"NSD I", Unit("%")>> @@
    "NSR Ewe/%" :> <<"NSR Ewe", Unit("%")>> @@
    "NSR I/%" :> <<"NSR I", Unit("%")>> @@
    "ox/red" :> <<"ox or red", NoUnit>> @@
    "P/W" :> <<"P", Unit("W")>> @@
    "Phase(C)/deg" :> <<"Phase(C)", Unit("deg")>> @@
    "Phase(Conductivity)/deg" :> <<"Phase(Conductivity)", Unit("deg")>> @@
    "Phase(M)/deg" :> <<"Phase(M)", Unit("deg")>> @@
    "Phase(Permittivity)/deg" :> <<"Phase(Permittivity)", Unit("deg")>> @@
    "Phase(Resistivity)/deg" :> <<"Phase(Resistivity)", Unit("deg")>> @@
    "Phase(Y)/deg" :> <<"Phase(Y)", Unit("deg")>> @@
    "Phase(Z)/deg" :> <<"Phase(Z)", Unit("deg")>> @@
    "Phase(Zce)/deg" :> <<"Phase(Zce)", Unit("deg")>> @@
    "Phase(Zwe-ce)/deg" :> <<"Phase(Zwe-ce)", Unit("deg")>> @@
    "Q charge/discharge/mA.h" :> <<"Q charge or discharge", Unit("mA.h")>> @@
    "Q charge/mA.h" :> <<"Q charge", Unit("mA.h")>> @@
    "Q charge/mA.h/g" :> <<"Q charge", Unit("mA.h/g")>> @@
    "Q discharge/mA.h" :> <<"Q discharge", Unit("mA.h")>> @@
    "Q discharge/mA.h/g" :> <<"Q discharge", Unit("mA.h/g")>> @@
    "R/Ohm" :> <<"R", Unit("Ohm")>> @@
    "Rcmp/Ohm" :> <<"Rcmp", Unit("Ohm")>> @@
    "Re(C)/nF" :> <<"Re(C)", Unit("nF")>> @@
    "Re(Conductivity)/mS/cm" :> <<"Re(Conductivity)", Unit("mS/cm")>> @@
    "Re(M)" :> <<"Re(M)", Unit("")>> @@
    "Re(Permittivity)" :> <<"Re(Permittivity)", Unit("")>> @@
    "Re(Resistivity)/Ohm.cm" :> <<"Re(Resistivity)", Unit("Ohm.cm")>> @@
    "Re(Y)/Ohm-1" :> <<"Re(Y)", Unit("S")>> @@
    "Re(Z)/Ohm" :> <<"Re(Z)", Unit("Ohm")>> @@
    "Re(Zce)/Ohm" :> <<"Re(Zce)", Unit("Ohm")>> @@
    "Re(Zwe-ce)/Ohm" :> <<"Re(Zwe-ce)", Unit("Ohm")>> @@
    "step time/s" :> <<"step time", Unit("s")>> @@
    "Tan(Delta)" :> <<"Tan(Delta)", Unit("")>> @@
    "THD Ewe/%" :> <<"THD Ewe", Unit("%")>> @@
    "THD I/%" :> <<"THD I", Unit("%")>> @@
    "time/s" :> <<"time", Unit("s")>> @@
    "x" :> <<"x", NoUnit>> @@
    "z cycle" :> <<"z cycle", NoUnit>>

---------------------------------------------------------------------------
(* Collaborators of process_data that live in yadg.dgutils and             *)
(* eclab/common/techniques.py.                                             *)

\* The enumeration decoder param_from_key("I_range", code): the label of
\* an I-range code, kept as an opaque term over the code.
param_from_key(key, code) == [t |-> "label", key |-> key, of |-> code]

\* param_from_key("I_range", label, to_str=False): back to the number.
param_from_key_value(key, label) == [t |-> "range", key |-> key, of |-> label]

\* The resolution model: a sigma for a float value of a unit-carrying
\* column. Only its sign is specified; the stand-in is 0 for a
\* dimensionless column and one quantisation step otherwise.
get_resolution(col, val, unit, Erange, Irange) ==
    PyFloat(IF unit = "" THEN 0 ELSE 1)

\* The assembler's per-row accumulation.
append_dicts(vals, devs, avals, ameta) ==
    [allvals |-> Append(avals, vals), allmeta |-> Append(ameta, devs)]

\* The assembled Dataset: its rows (value and sigma mappings), the unit
\* table and the attributes, which start as {fulldate: <the argument>}.
dicts_to_dataset(avals, ameta, us, fd) ==
    [vals |-> avals, devs |-> ameta, units |-> us,
     attrs |-> ("fulldate" :> fd), uts |-> <<>>]

---------------------------------------------------------------------------
(* process_data, mpt.py:147-227.                                           *)

Known(n) == n \in DOMAIN column_units

\* names = lines[1].split("\t")[:-1]; pieces is the split column line.
names_of(pieces) == ButLast(pieces)

\* The columns list built by the loop over names.
columns_of(ns) == [i \in 1..Len(ns) |-> column_units[ns[i]][1]]

\* The units dict built by the loop over names: a later label of the
\* same canonical name overwrites an earlier one; a label whose unit is
\* None adds nothing.
units_of(ns) ==
    LET withUnit == {i \in 1..Len(ns) : column_units[ns[i]][2] # NoUnit}
        name(i) == column_units[ns[i]][1]
        last(c) == CHOOSE i \in withUnit :
                       /\ name(i) = c
                       /\ \A j \in withUnit : name(j) = c => j <= i
    IN  [c \in {name(i) : i \in withUnit} |-> column_units[ns[last(c)]][2].v]

\* read_names with column_units.get(n, (n, None)): an unknown label
\* passes through as a unitless column.
read_names_passthrough(pieces) ==
    LET ns == ButLast(pieces)
        known == SelectSeq(ns, LAMBDA n : n \in DOMAIN column_units)
    IN  [ok |-> TRUE, err |-> "",
         columns |-> [i \in 1..Len(ns) |->
                         IF ns[i] \in DOMAIN column_units
                         THEN column_units[ns[i]][1] ELSE ns[i]],
         units |-> units_of(known)]

\* The first loop of process_data: KeyError at the first unknown label.
read_names(pieces) ==
    LET ns == names_of(pieces)
    IN  IF \E i \in 1..Len(ns) : ~Known(ns[i])
        THEN [ok |-> FALSE, err |-> "KeyError", columns |-> <<>>, units |-> <<>>]
        ELSE [ok |-> TRUE, err |-> "", columns |-> columns_of(ns),
              units |-> units_of(ns)]

\* units.get(name) is None
unit_is_none(us, name) == name \notin DOMAIN us

\* One (name, value) pair of the zip loop. A unitless column is parsed
\* with int(parse_decimal()), which raises ValueError on text; a
\* unit-carrying column keeps the stripped text instead.
read_cell(us, name, value) ==
    LET p == parse_decimal(value)
    IN  IF unit_is_none(us, name)
        THEN IF ~p.ok
             THEN [ok |-> FALSE, v |-> None]
             ELSE [ok |-> TRUE,
                   v |-> IF name = "I Range"
                         THEN param_from_key("I_range", PyInt(p.n))
                         ELSE PyInt(p.n)]
        ELSE [ok |-> TRUE,
              v |-> IF p.ok THEN PyFloat(p.n) ELSE PyStr(Strip(value))]

\* icv in {"I", "C"}
is_current_control(icv) == icv = PyStr(<<"I">>) \/ icv = PyStr(<<"C">>)

\* f"control_{icv}"
control_name(icv) ==
    CASE icv = PyStr(<<"I">>) -> "control_I"
      [] icv = PyStr(<<"C">>) -> "control_C"
      [] icv = PyStr(<<"V">>) -> "control_V"
      [] icv = None -> "control_None"
      [] OTHER -> "control_<other>"

\* sigma_columns with "if not unit: continue" for "if unit is None".
sigma_columns_truthy(vals, us) ==
    {c \in DOMAIN vals : c \in DOMAIN us /\ us[c] # ""}

\* The loop over vals.items() that fills devs: the columns it visits
\* (those whose unit is not None) ...
sigma_columns(vals, us) == {c \in DOMAIN vals : ~unit_is_none(us, c)}

\* sigma_assert_ok with the assert statement compiled away.
sigma_assert_skipped(vals, us) == TRUE

\* ... the assertion it makes on each ...
sigma_assert_ok(vals, us) ==
    \A c \in sigma_columns(vals, us) : vals[c].t = "float"

\* ... and the mapping it builds.
devs_of(vals, us, Erange, Irange) ==
    [c \in sigma_columns(vals, us) |->
        get_resolution(c, vals[c], us[c], Erange, Irange)]

Raise(e, us) == [ok |-> FALSE, err |-> e, vals |-> <<>>, devs |-> <<>>,
                 units |-> us, Erange |-> None, Irstr |-> None]

\* The body of the loop over data lines, for one line's values.
process_row(cols, us, values, Er, Ir, controls) ==
    LET n == Min(Len(cols), Len(values))
        cells == [i \in 1..n |-> read_cell(us, cols[i], values[i])]
        last(c) == CHOOSE i \in 1..n :
                       cols[i] = c /\ \A j \in 1..n : cols[j] = c => j <= i
        vals0 == [c \in {cols[i] : i \in 1..n} |-> cells[last(c)].v]
        hasNs == "Ns" \in DOMAIN vals0
        idx == IF hasNs THEN vals0["Ns"].v ELSE 0
        Erange == Index(Er, idx)
        Irstr == IF "I Range" \in DOMAIN vals0 THEN vals0["I Range"]
                 ELSE Index(Ir, idx)
        Irange == param_from_key_value("I_range", Irstr)
        rename == "control_V_I" \in DOMAIN vals0
        icv == Index(controls, idx)
        name == control_name(icv)
        vals1 == IF rename
                 THEN (name :> vals0["control_V_I"]) @@
                      [c \in DOMAIN vals0 \ {"control_V_I"} |-> vals0[c]]
                 ELSE vals0
        us1 == IF rename
               THEN (name :> IF is_current_control(icv) THEN "mA" ELSE "V") @@ us
               ELSE us
    IN  IF \E i \in 1..n : ~cells[i].ok THEN Raise("ValueError", us)
        ELSE IF ~InRange(Er, idx) \/ ~InRange(Ir, idx)
        THEN Raise("IndexError", us)
        ELSE IF rename /\ ~hasNs THEN Raise("KeyError", us)
        ELSE IF rename /\ ~InRange(controls, idx) THEN Raise("IndexError", us)
        ELSE IF ~sigma_assert_ok(vals1, us1) THEN Raise("AssertionError", us1)
        ELSE [ok |-> TRUE, err |-> "", vals |-> vals1,
              devs |-> devs_of(vals1, us1, Erange, Irange),
              units |-> us1, Erange |-> Erange, Irstr |-> Irstr]

---------------------------------------------------------------------------
(* The header block. header_lines joined and split on blank lines gives a  *)
(* sequence of sections; a section is a sequence of lines; a line is       *)
(*   [k |-> "text", s]       free text (the technique name, file info)     *)
(*   [k |-> "loops", n]      "Number of loops : n"                         *)
(*   [k |-> "loop", first]   "Loop i from point number first to last"      *)
(*   [k |-> "acq", val]      "Acquisition started on : val"                *)
(*   [k |-> "param", chars]  a fixed-width parameter line, by character    *)
(* The text after "Acquisition started on : " is [t |-> "text", as |-> f], *)
(* f being what str_to_uts makes of it under each candidate format.        *)

FieldWidth == 20

TimeFormats ==
    <<"%m/%d/%Y %H:%M:%S", "%m.%d.%Y %H:%M:%S", "%m/%d/%Y %H:%M:%S.%f">>

\* dgutils.str_to_uts(timestamp, format, timezone, strict=False): the uts,
\* or None when the format does not match.
str_to_uts(timestamp, format) == timestamp.as[format]

\* techniques.technique_params: the parameter keys of a technique, from
\* a catalogue that is cut here to three techniques and the keys extract
\* reads. A name the catalogue does not hold is refused.
technique_catalogue ==
    "OCV" :> <<"E_range_min", "E_range_max">> @@
    "GCPL" :> <<"set_I/C", "I_range">> @@
    "MB" :> <<"apply_I/C">>
technique_known(technique) == technique \in DOMAIN technique_catalogue
technique_params(technique) == technique_catalogue[technique]

\* sections[1].strip()
section_text(section) ==
    IF section[1].k = "text" THEN section[1].s ELSE "Number of loops : 1"

\* s[-n:] and s[:-n]
TakeLast(s, n) ==
    IF n = 0 \/ n >= Len(s) THEN s ELSE SubSeq(s, Len(s) - n + 1, Len(s))
DropLast(s, n) == IF n = 0 THEN <<>> ELSE SubSeq(s, 1, Len(s) - n)

\* starts_with_loops with the check dropped.
starts_with_loops_never(section) == FALSE

\* sections[i].startswith("Number of loops : ")
starts_with_loops(section) == section # <<>> /\ section[1].k = "loops"

\* n_sequences = int(len(params[0]) / 20)
n_sequences_of(plines) == Len(plines[1].chars) \div FieldWidth

\* sequence_range starting at field 0: list(range(n_sequences)).
sequence_range_from_zero(n) == [j \in 1..n |-> j - 1]

\* The seq values the slicing loop runs over: list(range(1, n_sequences)).
sequence_range(n) == [j \in 1..(n - 1) |-> j]

\* val = param[seq * 20 : (seq + 1) * 20], then float(parse_decimal(val)),
\* or val.strip() on ValueError.
field_value(param, seq) ==
    LET val == Slice(param.chars, seq * FieldWidth, (seq + 1) * FieldWidth)
        p == parse_decimal(val)
    IN  IF p.ok THEN PyFloat(p.n) ELSE PyStr(Strip(val))

\* dict(zip(params_keys, values))
zip_dict(keys, values) ==
    LET n == Min(Len(keys), Len(values))
        last(c) == CHOOSE i \in 1..n :
                       keys[i] = c /\ \A j \in 1..n : keys[j] = c => j <= i
    IN  [c \in {keys[i] : i \in 1..n} |-> values[last(c)]]

\* The list of per-sequence parameter mappings (mpt.py:100-113).
slice_params(keys, plines) ==
    LET seqs == sequence_range(n_sequences_of(plines))
        rows == [j \in 1..Len(seqs) |->
                    [i \in 1..Len(plines) |-> field_value(plines[i], seqs[j])]]
    IN  [j \in 1..Len(seqs) |-> zip_dict(keys, rows[j])]

\* timestamp_re.search over the remaining settings lines: the text of the
\* first "Acquisition started on : " line, or None.
find_timestamp(slines) ==
    LET hits == {i \in 1..Len(slines) : slines[i].k = "acq"}
    IN  IF hits = {} THEN None
        ELSE slines[CHOOSE i \in hits : \A j \in hits : i <= j].val

\* resolve_timestamp without the break: every format is tried and the
\* last result stands.
resolve_timestamp_no_break(timestamp) ==
    [uts |-> timestamp.as[TimeFormats[Len(TimeFormats)]], tried |-> TimeFormats]

\* The loop over the candidate formats (mpt.py:120-125): the uts it ends
\* with and the formats it handed to str_to_uts.
resolve_timestamp(timestamp) ==
    LET ok == {k \in 1..Len(TimeFormats) :
                  str_to_uts(timestamp, TimeFormats[k]) # None}
        k0 == CHOOSE k \in ok : \A j \in ok : k <= j
    IN  IF ok = {}
        THEN [uts |-> None, tried |-> TimeFormats]
        ELSE [uts |-> str_to_uts(timestamp, TimeFormats[k0]),
              tried |-> SubSeq(TimeFormats, 1, k0)]

\* The loops section (mpt.py:129-138).
has_loops(secs) == Len(secs) >= 4 /\ starts_with_loops(secs[Len(secs)])

loops_of(secs) ==
    LET ll == secs[Len(secs)]
        n_loops == ll[1].n
    IN  IF ~has_loops(secs) THEN [ok |-> TRUE, loops |-> None]
        ELSE IF Len(ll) < n_loops + 1 THEN [ok |-> FALSE, loops |-> None]
        ELSE [ok |-> TRUE,
              loops |-> [n_loops |-> n_loops,
                         indexes |-> [n \in 1..n_loops |-> ll[n + 1].first]]]

HRaise(e, tr) == [ok |-> FALSE, err |-> e, settings |-> None,
                  params |-> <<>>, loops |-> None, tried |-> tr]

\* process_header, mpt.py:70-144.
process_header(secs) ==
    IF Len(secs) < 2 THEN HRaise("IndexError", <<>>)
    ELSE IF starts_with_loops(secs[2]) THEN HRaise("AssertionError", <<>>)
    ELSE IF Len(secs) < 3 THEN HRaise("AssertionError", <<>>)
    ELSE
    LET technique == section_text(secs[2])
        settings_lines == secs[3]
        params_keys == technique_params(technique)
        plines == TakeLast(settings_lines, Len(params_keys))
        rest == DropLast(settings_lines, Len(params_keys))
        timestamp == find_timestamp(rest)
        rt == resolve_timestamp(timestamp)
        lp == loops_of(secs)
    IN  IF ~technique_known(technique)
        THEN HRaise("technique_params raised", <<>>)
        ELSE IF timestamp = None THEN HRaise("TypeError", <<>>)
        ELSE IF rt.uts = None THEN HRaise("NotImplementedError", rt.tried)
        ELSE IF ~lp.ok THEN HRaise("IndexError", rt.tried)
        ELSE [ok |-> TRUE, err |-> "",
              settings |-> [posix_timestamp |-> rt.uts,
                            technique |-> technique, raw |-> secs],
              params |-> slice_params(params_keys, plines),
              loops |-> lp.loops, tried |-> rt.tried]

---------------------------------------------------------------------------
(* extract, mpt.py:230-306.                                                *)

Auto == <<"A", "u", "t", "o">>
NaN == [t |-> "nan"]

\* el.get(key, default)
dict_get(el, key, default) == IF key \in DOMAIN el THEN el[key] ELSE default

\* E_range_max - E_range_min on floats; a str operand is a TypeError.
is_number(x) == x.t \in {"float", "inf", "-inf"}
float_sub(a, b) ==
    IF a.t = "inf" \/ b.t = "-inf" THEN PosInf
    ELSE IF a.t = "-inf" \/ b.t = "inf" THEN NegInf
    ELSE PyFloat(a.v - b.v)

\* The loop over params (mpt.py:282-292), for one sequence.
Erange_of(el) ==
    float_sub(dict_get(el, "E_range_max", PosInf),
              dict_get(el, "E_range_min", NegInf))
Erange_ok(el) ==
    /\ is_number(dict_get(el, "E_range_max", PosInf))
    /\ is_number(dict_get(el, "E_range_min", NegInf))
Irange_of(el) == dict_get(el, "I_range", PyStr(Auto))
ctrl_of(el) ==
    IF "set_I/C" \in DOMAIN el THEN el["set_I/C"]
    ELSE IF "apply_I/C" \in DOMAIN el THEN el["apply_I/C"]
    ELSE None

\* The no-header branch (mpt.py:268-274).
no_header_defaults ==
    [start_time |-> PyFloat(0), fulldate |-> FALSE,
     Eranges |-> <<PyFloat(20)>>, Iranges |-> <<PyStr(Auto)>>,
     ctrls |-> <<None>>]

\* ds["uts"] = ds["time"] + start_time, or [start_time] without a time column.
uts_of(avals, st) ==
    IF \E i \in 1..Len(avals) : "time" \in DOMAIN avals[i]
    THEN [i \in 1..Len(avals) |->
             IF "time" \in DOMAIN avals[i]
             THEN PyFloat(avals[i]["time"].v + st.v) ELSE NaN]
    ELSE <<st>>

\* attrs_of without the del.
attrs_of_keep(attrs, fd, sett, pars) ==
    ("settings" :> sett) @@ ("params" :> pars) @@ attrs

\* del ds.attrs["fulldate"] when fulldate, then ds.attrs.update(metadata).
attrs_of(attrs, fd, sett, pars) ==
    LET kept == IF fd THEN [k \in DOMAIN attrs \ {"fulldate"} |-> attrs[k]]
                ELSE attrs
    IN  ("settings" :> sett) @@ ("params" :> pars) @@ kept

\* The end of process_data (line 226) and of extract (lines 297-306).
finish_extract(avals, ameta, us, st, fd, sett, pars) ==
    LET d == dicts_to_dataset(avals, ameta, us, FALSE)
    IN  [d EXCEPT !.uts = uts_of(avals, st),
                  !.attrs = attrs_of(d.attrs, fd, sett, pars)]

---------------------------------------------------------------------------
(* Input pools.                                                            *)

Spaces(n) == [i \in 1..n |-> " "]
Pad(tok) == tok \o Spaces(FieldWidth - Len(tok))

RECURSIVE PadAll(_)
PadAll(toks) == IF toks = <<>> THEN <<>> ELSE Pad(Head(toks)) \o PadAll(Tail(toks))

\* A parameter line: the label field, one field per sequence, and rem
\* characters that do not fill a field.
KeyLabel == <<"k", "e", "y">>
ParamLine(toks, rem) ==
    [k |-> "param", chars |-> Pad(KeyLabel) \o PadAll(toks) \o Spaces(rem)]

TokPool == {<<"5">>, <<"I">>}
RemPool == {0, 7}
UtsPool == {0, 100}
Techniques == DOMAIN technique_catalogue
FormatSet == {TimeFormats[k] : k \in 1..Len(TimeFormats)}
TimestampPool ==
    {[t |-> "text", as |-> f] :
        f \in [FormatSet -> {None} \cup {PyFloat(u) : u \in UtsPool}]}

InfoSection == <<[k |-> "text", s |-> "Nb header lines"]>>
TechSection(tech) == <<[k |-> "text", s |-> tech]>>
LoopsSection == <<[k |-> "loops", n |-> 1], [k |-> "loop", first |-> 0]>>
SettingsSection(cells, rem, ts) ==
    <<[k |-> "text", s |-> "Electrode connection : standard"],
      [k |-> "acq", val |-> ts]>>
    \o [i \in 1..Len(cells) |-> ParamLine(cells[i], rem)]

MkHeader(tech, cells, rem, ts, loops) ==
    <<InfoSection, TechSection(tech), SettingsSection(cells, rem, ts)>>
    \o (IF loops THEN <<LoopsSection>> ELSE <<>>)

\* cells[i][j]: the text of key i for sequence j.
CellsOf(tech) ==
    UNION {[1..Len(technique_params(tech)) -> [1..nv -> TokPool]] :
              nv \in 0..(MaxFields - 1)}

GoodHeaders ==
    UNION {{MkHeader(tech, cells, rem, ts, loops) :
               cells \in CellsOf(tech), rem \in RemPool,
               ts \in TimestampPool, loops \in BOOLEAN} :
           tech \in Techniques}

\* Timestamps that parse under the first format only, and under none.
TsFirst ==
    [t |-> "text",
     as |-> [f \in FormatSet |->
                IF f = TimeFormats[1] THEN PyFloat(100) ELSE None]]
TsNever == [t |-> "text", as |-> [f \in FormatSet |-> None]]

\* Headers without a usable settings section: a header of one section, of
\* two, one whose second section is the loops section (alone or followed
\* by more), and a settings section without an acquisition line.
HeaderOneSection == <<InfoSection>>
HeaderTwoSections == <<InfoSection, TechSection("OCV")>>
HeaderLoopsOnly == <<InfoSection, LoopsSection>>
HeaderLoopsSecond ==
    <<InfoSection, LoopsSection, SettingsSection(<<>>, 0, TsFirst)>>
HeaderNoAcquisition ==
    <<InfoSection, TechSection("MB"),
      <<[k |-> "text", s |-> "Electrode connection : standard"],
        ParamLine(<<<<"I">>>>, 0)>>>>
NoSettingsHeaders ==
    {HeaderOneSection, HeaderTwoSections, HeaderLoopsOnly, HeaderLoopsSecond}
BadHeaders == NoSettingsHeaders \cup {HeaderNoAcquisition}

Headers == GoodHeaders \cup BadHeaders

\* The headers extract is run on: the bad ones, one whose timestamp no
\* format parses, and three that parse, of one and of two sequences.
HeaderPool ==
    BadHeaders \cup
    {MkHeader("OCV", <<<<<<"5">>>>, <<<<"5">>>>>>, 0, TsNever, FALSE),
     MkHeader("OCV", <<<<<<"5">>>>, <<<<"5">>>>>>, 0, TsFirst, FALSE),
     MkHeader("OCV", <<<<>>, <<>>>>, 0, TsFirst, FALSE),
     MkHeader("GCPL", <<<<<<"I">>, <<"5">>>>, <<<<"5">>, <<"5">>>>>>, 0,
              TsFirst, TRUE)}

MtimePool == {1000, 2000}

\* The column-name line split on tabs: labels in the instrument's column
\* order, then the piece after the last tab, which is empty in an EC-Lab
\* export and a label when the trailing tab is missing.
LabelPool ==
    <<"Ns", "time/s", "Re(M)", "control/V/mA", "I Range", "unknown/X">>
TrailingPool == {"", "unknown/X"}

RECURSIVE Pick(_, _)
Pick(labels, S) ==
    IF labels = <<>> THEN <<>>
    ELSE (IF Len(labels) \in S THEN Pick(ButLast(labels), S) \o <<labels[Len(labels)]>>
          ELSE Pick(ButLast(labels), S))

ColumnLines ==
    {Pick(LabelPool, S) \o <<tr>> :
        S \in {T \in SUBSET (1..Len(LabelPool)) : Cardinality(T) <= MaxCols},
        tr \in TrailingPool}

\* The text of a data cell.
CellPool == {<<"0">>, <<"1">>, <<" ", "x">>}

---------------------------------------------------------------------------
(* The state machine of extract.                                          *)

LineCount(h) ==
    LET RECURSIVE Sum(_)
        Sum(s) == IF s = <<>> THEN 0 ELSE Len(Head(s)) + 1 + Sum(Tail(s))
    IN  Sum(h)

IdleData ==
    /\ err = ""
    /\ hres = None /\ tried = <<>>
    /\ start_time = None /\ fulldate = FALSE
    /\ Eranges = <<>> /\ Iranges = <<>> /\ ctrls = <<>>
    /\ settings = <<>> /\ params = <<>>
    /\ colline = <<>> /\ names = <<>> /\ columns = <<>> /\ units = <<>>
    /\ line = <<>> /\ allvals = <<>> /\ allmeta = <<>>
    /\ ds = None

IdleZip ==
    /\ archive = <<>> /\ tempdir = FALSE /\ filenames = <<>>
    /\ dt_list = <<>> /\ dt = None /\ nmerged = 0

IdleMerge == args = <<>> /\ heap = <<>> /\ ret = None

IdleAux ==
    /\ tolcase = None /\ sigma = None
    /\ folder = <<>> /\ preset = None /\ schema = None /\ nsteps = 0

Idle == IdleData /\ IdleZip /\ IdleMerge /\ IdleAux

\* A file is its header, the number its first line declares, and its mtime.
Init ==
    /\ pc = "open"
    /\ \/ nb_header_lines = 3 /\ header = <<>>
       \/ \E h \in HeaderPool :
              header = h /\ nb_header_lines = 3 + LineCount(h)
    /\ mtime \in MtimePool
    /\ Idle

\* mpt.py:268-274
OpenNoHeader ==
    /\ pc = "open" /\ nb_header_lines <= 3
    /\ start_time' = no_header_defaults.start_time
    /\ fulldate' = no_header_defaults.fulldate
    /\ Eranges' = no_header_defaults.Eranges
    /\ Iranges' = no_header_defaults.Iranges
    /\ ctrls' = no_header_defaults.ctrls
    /\ pc' = "columns"
    /\ UNCHANGED <<err, nb_header_lines, header, mtime, settings, params,
                   colline, names, columns, units, line, allvals, allmeta, ds,
                   hdrvars, zipvars, mergevars, auxvars>>

\* mpt.py:275-292
OpenWithHeader ==
    /\ pc = "open" /\ nb_header_lines > 3
    /\ LET r == process_header(header)
           typeError == \E i \in 1..Len(r.params) : ~Erange_ok(r.params[i])
       IN  IF ~r.ok \/ typeError
           THEN /\ pc' = "raised"
                /\ err' = IF ~r.ok THEN r.err ELSE "TypeError"
                /\ UNCHANGED <<start_time, fulldate, Eranges, Iranges, ctrls,
                               settings, params>>
           ELSE /\ pc' = "columns"
                /\ settings' = r.settings
                /\ params' = r.params
                /\ start_time' = r.settings.posix_timestamp
                /\ fulldate' = TRUE
                /\ Eranges' = [i \in 1..Len(r.params) |-> Erange_of(r.params[i])]
                /\ Iranges' = [i \in 1..Len(r.params) |-> Irange_of(r.params[i])]
                /\ ctrls' = [i \in 1..Len(r.params) |-> ctrl_of(r.params[i])]
                /\ err' = err
    /\ UNCHANGED <<nb_header_lines, header, mtime, colline, names, columns,
                   units, line, allvals, allmeta, ds, hdrvars, zipvars, mergevars, auxvars>>

\* process_data, mpt.py:174-182: the column-name line.
ReadColumns ==
    /\ pc = "columns"
    /\ \E pieces \in ColumnLines :
          LET r == read_names(pieces)
          IN  /\ colline' = pieces
              /\ names' = names_of(pieces)
              /\ columns' = r.columns
              /\ units' = r.units
              /\ pc' = IF r.ok THEN "rows" ELSE "raised"
              /\ err' = r.err
    /\ UNCHANGED <<nb_header_lines, header, mtime, start_time, fulldate,
                   Eranges, Iranges, ctrls, settings, params, line, allvals,
                   allmeta, ds, hdrvars, zipvars, mergevars, auxvars>>

\* process_data, mpt.py:185-224: one data line.
ReadRow ==
    /\ pc = "rows" /\ Len(allvals) < MaxRows
    /\ \E values \in [1..Len(columns) -> CellPool] :
          LET r == process_row(columns, units, values, Eranges, Iranges, ctrls)
              a == append_dicts(r.vals, r.devs, allvals, allmeta)
          IN  /\ line' = values
              /\ units' = r.units
              /\ err' = r.err
              /\ IF r.ok
                 THEN /\ allvals' = a.allvals
                      /\ allmeta' = a.allmeta
                      /\ pc' = "rows"
                 ELSE /\ pc' = "raised"
                      /\ UNCHANGED <<allvals, allmeta>>
    /\ UNCHANGED <<nb_header_lines, header, mtime, start_time, fulldate,
                   Eranges, Iranges, ctrls, settings, params, colline, names,
                   columns, ds, hdrvars, zipvars, mergevars, auxvars>>

\* mpt.py:226 and 297-306: no data line is left.
Finish ==
    /\ pc = "rows"
    /\ ds' = finish_extract(allvals, allmeta, units, start_time, fulldate,
                            settings, params)
    /\ pc' = "done"
    /\ UNCHANGED <<err, nb_header_lines, header, mtime, start_time, fulldate,
                   Eranges, Iranges, ctrls, settings, params, colline, names,
                   columns, units, line, allvals, allmeta, hdrvars, zipvars, mergevars, auxvars>>

Next == OpenNoHeader \/ OpenWithHeader \/ ReadColumns \/ ReadRow \/ Finish

Spec == Init /\ [][Next]_vars

---------------------------------------------------------------------------
(* process_header on its own, over every header of the pool.               *)

InitHeader ==
    /\ pc = "header"
    /\ header \in Headers
    /\ nb_header_lines = 3 + LineCount(header)
    /\ mtime = 1000
    /\ Idle

HeaderReturns ==
    /\ pc = "header" /\ process_header(header).ok
    /\ hres' = process_header(header)
    /\ tried' = process_header(header).tried
    /\ pc' = "returned"
    /\ UNCHANGED <<err, mptvars, zipvars, mergevars, auxvars>>

HeaderRaises ==
    /\ pc = "header" /\ ~process_header(header).ok
    /\ hres' = process_header(header)
    /\ tried' = process_header(header).tried
    /\ err' = process_header(header).err
    /\ pc' = "raised"
    /\ UNCHANGED <<mptvars, zipvars, mergevars, auxvars>>

NextHeader == HeaderReturns \/ HeaderRaises

SpecHeader == InitHeader /\ [][NextHeader]_vars
---------------------------------------------------------------------------
(* Properties of extract and process_data, checked under Spec.             *)

\* The unit-carrying columns of a row, read off the table: the canonical
\* names of the labels whose unit is not None.
UnitColumns ==
    {column_units[names[i]][1] :
        i \in {j \in 1..Len(names) : column_units[names[j]][2] # NoUnit}}

\* C1: for every data row handed to the assembler, the keys of its sigma
\* mapping are exactly the unit-carrying columns of the row, the columns
\* with the empty unit included, and every sigma is a non-negative float.
C1_SigmaKeys ==
    \A r \in 1..Len(allvals) :
        /\ DOMAIN allmeta[r] = UnitColumns
        /\ DOMAIN allmeta[r] \subseteq DOMAIN allvals[r]
        /\ \A c \in DOMAIN allmeta[r] :
               allmeta[r][c].t = "float" /\ allmeta[r][c].v >= 0

\* A row with a unitless column, a column of empty unit and one of unit s
\* has been handed over.
C1_Witness ==
    \E r \in 1..Len(allvals) :
        /\ "Ns" \in DOMAIN allvals[r] /\ "Ns" \notin DOMAIN allmeta[r]
        /\ "Re(M)" \in DOMAIN allmeta[r]

\* A header lacks a settings section: it has fewer than three sections or
\* its second section is the loops section.
LacksSettings(h) ==
    Len(h) < 3 \/ (h[2] # <<>> /\ h[2][1].k = "loops")

\* C2 as stated: a header that lacks a settings section never makes
\* extract fail.
C2_Original ==
    (nb_header_lines > 3 /\ LacksSettings(header)) => pc # "raised"

\* C2 as amended: for a header that lacks a settings section,
\* process_header raises (IndexError for a header of one section, the
\* "no settings present" AssertionError otherwise), extract ends with that
\* exception, returns no dataset and sets no default range.
C2_NoSettingsRaises ==
    (nb_header_lines > 3 /\ LacksSettings(header) /\ pc # "open") =>
        /\ pc = "raised"
        /\ err = IF Len(header) < 2 THEN "IndexError" ELSE "AssertionError"
        /\ ds = None
        /\ Eranges = <<>> /\ Iranges = <<>> /\ start_time = None

\* extract has failed on a header whose second section is the loops
\* section and which has three sections.
C2_Witness ==
    pc = "raised" /\ Len(header) = 3 /\ LacksSettings(header)

\* C3 as stated: without a header, the uts of every row is its time
\* offset plus the file's modification time.
C3_Original ==
    (pc = "done" /\ nb_header_lines <= 3) =>
        \A r \in 1..Len(ds.vals) :
            "time" \in DOMAIN ds.vals[r] =>
                ds.uts[r] = PyFloat(ds.vals[r]["time"].v + mtime)

\* A unit-carrying column of the current line holds text.
TextInUnitColumn ==
    \E i \in 1..Len(line) :
        column_units[names[i]][2] # NoUnit /\ ~IsDecimal(line[i])
TextInUnitlessColumn ==
    \E i \in 1..Len(line) :
        column_units[names[i]][2] = NoUnit /\ ~IsDecimal(line[i])
\* The sequence index the current line looks its ranges up with: its Ns,
\* or 0 without an Ns column.
RangeIndex ==
    IF \E i \in 1..Len(line) : names[i] = "Ns"
    THEN parse_decimal(line[CHOOSE i \in 1..Len(line) : names[i] = "Ns"]).n
    ELSE 0
RangeIndexOut ==
    RangeIndex >= Len(Eranges) \/ RangeIndex < 0 - Len(Eranges)

C8_Fulldate ==
    pc = "done" =>
        /\ ("fulldate" \in DOMAIN ds.attrs) <=> (nb_header_lines <= 3)
        /\ "fulldate" \in DOMAIN ds.attrs => ds.attrs["fulldate"] = FALSE
        /\ nb_header_lines > 3 =>
               /\ "fulldate" \notin DOMAIN ds.attrs
               /\ ds.attrs["settings"].posix_timestamp = start_time
               /\ \A r \in 1..Len(ds.vals) :
                      "time" \in DOMAIN ds.vals[r] =>
                          ds.uts[r].v = ds.vals[r]["time"].v + start_time.v

\* A file with a header has been extracted with a timed row.
C8_Witness ==
    /\ pc = "done" /\ nb_header_lines > 3
    /\ "fulldate" \notin DOMAIN ds.attrs
    /\ Len(ds.vals) = 1 /\ "time" \in DOMAIN ds.vals[1]

\* C9 as stated: without a header, no value of Ns makes the extraction
\* fail: a row never ends in the IndexError of a range lookup.
C9_Original ==
    ~(nb_header_lines <= 3 /\ pc = "raised" /\ err = "IndexError")

---------------------------------------------------------------------------
(* Properties of process_header, checked under SpecHeader.                 *)

\* The parameter lines of a header that has a settings section.
ParamLines == SelectSeq(header[3], LAMBDA l : l.k = "param")
HeaderKeys == technique_catalogue[header[2][1].s]

\* The parsed text of characters a+1 .. b of a line.
FieldOf(chars, a, b) ==
    LET txt == [i \in 1..(b - a) |-> chars[a + i]]
    IN  IF IsDecimal(txt) THEN PyFloat(parse_decimal(txt).n)
        ELSE PyStr(Strip(txt))

\* C4 as stated: process_header returns W/20 mappings for parameter
\* lines W characters wide.
C4_Original ==
    pc = "returned" =>
        Len(hres.params) = Len(ParamLines[1].chars) \div 20

\* C4 as amended: the first 20-character field of a parameter line is its
\* label, so process_header returns W/20 - 1 mappings (W/20 rounded
\* down); the k-th is keyed by the technique's parameter keys and built
\* from characters 20k+1 .. 20k+20 of every parameter line, the field
\* after the k-th.
C4_OnePerSequence ==
    pc = "returned" =>
        /\ Len(hres.params) = (Len(ParamLines[1].chars) \div 20) - 1
        /\ \A k \in 1..Len(hres.params) :
               /\ DOMAIN hres.params[k] =
                      {HeaderKeys[i] : i \in 1..Len(HeaderKeys)}
               /\ \A i \in 1..Len(HeaderKeys) :
                      hres.params[k][HeaderKeys[i]] =
                          FieldOf(ParamLines[i].chars, 20 * k, 20 * k + 20)

\* A header of two sequences, in lines 67 characters wide, was processed.
C4_Witness ==
    /\ pc = "returned" /\ Len(hres.params) = 2
    /\ Len(ParamLines[1].chars) = 67

\* What str_to_uts makes of the header's acquisition line under the k-th
\* candidate format, the formats in the order of the claim.
ClaimFormats ==
    <<"%m/%d/%Y %H:%M:%S", "%m.%d.%Y %H:%M:%S", "%m/%d/%Y %H:%M:%S.%f">>
AcqLines == SelectSeq(header[3], LAMBDA l : l.k = "acq")
Outcome(k) == AcqLines[1].val.as[ClaimFormats[k]]
ReachesTimestamp ==
    /\ Len(header) >= 3 /\ header[2][1].k = "text"
    /\ AcqLines # <<>>

\* C6: the timestamp is that of the first candidate format, in the fixed
\* order, that parses; the formats after it are not tried; and exactly when
\* none parses NotImplementedError is raised and nothing is returned.
C6_FormatChain ==
    (pc \in {"returned", "raised"} /\ ReachesTimestamp) =>
        IF \A k \in 1..3 : Outcome(k) = None
        THEN /\ pc = "raised" /\ err = "NotImplementedError"
             /\ hres.settings = None /\ hres.params = <<>>
             /\ tried = ClaimFormats
        ELSE \E k \in 1..3 :
                /\ Outcome(k) # None
                /\ \A j \in 1..(k - 1) : Outcome(j) = None
                /\ pc = "returned"
                /\ hres.settings.posix_timestamp = Outcome(k)
                /\ tried = SubSeq(ClaimFormats, 1, k)

\* The second format won although the third would parse as well.
C6_Witness ==
    /\ pc = "returned" /\ ReachesTimestamp
    /\ Outcome(1) = None /\ Outcome(2) # None /\ Outcome(3) # None
    /\ Outcome(3) # Outcome(2)
    /\ Len(tried) = 2
---------------------------------------------------------------------------
(* The Fusion zip extractor, zip.py.                                       *)
(*                                                                         *)
(* A DataTree node is [ds, attrs, children]: ds is None or the node's row  *)
(* data [uts |-> the time axis, signal |-> the data variable "signal", one *)
(* value per row], attrs a mapping, children a mapping from names to       *)
(* nodes.                                                                  *)

Node(d, a, ch) == [ds |-> d, attrs |-> a, children |-> ch]
NoChildren == <<>>

\* concat_reversed: xr.concat([dt2_ds, dt1_ds], ...).
concat_reversed(ds1, ds2) ==
    [uts |-> ds2.uts \o ds1.uts, signal |-> ds2.signal \o ds1.signal]

\* xr.concat([dt1_ds, dt2_ds], dim="uts", ...): the rows of the first
\* followed by the rows of the second, for the axis and for every data
\* variable; nothing is sorted and no value is compared.
concat(ds1, ds2) ==
    [uts |-> ds1.uts \o ds2.uts, signal |-> ds1.signal \o ds2.signal]

\* concat_ok with combine_attrs="override": attributes are not compared.
concat_ok_always(n1, n2) == TRUE

\* combine_attrs="identical": attributes that differ are a MergeError.
concat_ok(n1, n2) == n1.attrs = n2.attrs

\* merged_ds without the elif branch: data of dt2 is never adopted.
merged_ds_no_adopt(dt1, dt2) ==
    IF dt1.ds # None /\ dt2.ds # None THEN concat(dt1.ds, dt2.ds)
    ELSE dt1.ds

\* zip.py:81-97: the data of the merged node.
merged_ds(dt1, dt2) ==
    IF dt1.ds # None /\ dt2.ds # None THEN concat(dt1.ds, dt2.ds)
    ELSE IF dt1.ds = None THEN dt2.ds
    ELSE dt1.ds

\* attrs_update the other way round: the left operand's value wins.
attrs_update_left_wins(a1, a2) == a1 @@ a2

\* dt1.attrs.update(dt2.attrs)
attrs_update(a1, a2) == a2 @@ a1

\* merged_children without the else branch: a child that only dt2 has
\* is not adopted.
merged_children_shared_only(dt1, dt2, sub) ==
    [key \in DOMAIN dt1.children |->
        IF key \in DOMAIN sub THEN sub[key] ELSE dt1.children[key]]

\* zip.py:101-105: the children of dt1 after the loop over dt2.children;
\* sub[key] is the merge of the two children named key.
merged_children(dt1, dt2, sub) ==
    [key \in DOMAIN dt1.children \cup DOMAIN dt2.children |->
        IF key \in DOMAIN sub THEN sub[key]
        ELSE IF key \in DOMAIN dt2.children THEN dt2.children[key]
        ELSE dt1.children[key]]

\* merge_datatrees, zip.py:76-106: [ok, tree], ok = FALSE when the merge
\* raised RuntimeError at this node or below.
RECURSIVE merge_datatrees(_, _)
merge_datatrees(dt1, dt2) ==
    LET both == dt1.ds # None /\ dt2.ds # None
        shared == DOMAIN dt1.children \cap DOMAIN dt2.children
        sub == [key \in shared |->
                   merge_datatrees(dt1.children[key], dt2.children[key])]
        kids == merged_children(dt1, dt2, [key \in shared |-> sub[key].tree])
    IN  IF (both /\ ~concat_ok(dt1, dt2)) \/ \E key \in shared : ~sub[key].ok
        THEN [ok |-> FALSE, tree |-> dt1]
        ELSE [ok |-> TRUE,
              tree |-> Node(merged_ds(dt1, dt2),
                            attrs_update(dt1.attrs, dt2.attrs), kids)]

\* left_after with merge_datatrees working on a copy of dt1.
left_after_untouched(dt1, merged) == dt1

\* The object dt1 after a call that returned: merge_datatrees writes the
\* data, the attributes and the children through dt1 (zip.py:85, 97, 99,
\* 103, 105) and returns dt1 itself (zip.py:106).
left_after(dt1, merged) == merged

\* with_exit for a directory made with mkdtemp and removed before the
\* return statement only: an exception leaves it behind.
with_exit_on_return(exists, raised) == exists /\ raised

\* Leaving the with block of zip.py:64, by return or by exception:
\* TemporaryDirectory removes the directory. The value is whether the
\* directory exists afterwards.
with_exit(exists, raised) == FALSE

\* The names an archive may hold, in sorted order; the last one does not
\* end in "fusion-data".
MemberNames ==
    <<"a.fusion-data", "b.fusion-data", "c.fusion-data", "notes.txt">>
Rank(name) == CHOOSE i \in 1..Len(MemberNames) : MemberNames[i] = name
ends_with_fusion_data(name) == name # "notes.txt"

\* sorted(ffn for ffn in os.listdir(tempdir) if ffn.endswith("fusion-data"))
RECURSIVE sorted(_)
sorted(S) ==
    IF S = {} THEN <<>>
    ELSE LET m == CHOOSE n \in S : \A o \in S : Rank(n) <= Rank(o)
         IN  <<m>> \o sorted(S \ {m})
sorted_filenames(arch) ==
    sorted({n \in DOMAIN arch : ends_with_fusion_data(n)})

\* What extract_json makes of a member: a tree, or Corrupt when it raises.
\* The rows of time range b are 10b+1 and 10b+2.
Corrupt == [t |-> "corrupt"]
TimeRange(b) == <<10 * b + 1, 10 * b + 2>>
\* Row data over time range b whose signal is v in both rows.
Data(b, v) == [uts |-> TimeRange(b), signal |-> <<v, v>>]
AttrPool == {<<>>, "method" :> "m1"}
MemberTrees(b) ==
    {Node(Data(b, b), a, NoChildren) : a \in AttrPool} \cup
    {Node(Data(b, b), a, "TCD" :> Node(Data(b, b), <<>>, NoChildren)) :
        a \in AttrPool} \cup
    {Node(None, a, "TCD" :> Node(Data(b, b), <<>>, NoChildren)) :
        a \in AttrPool}

\* Archives: some of the member names, each member with a time range of
\* its own (so the ranges are disjoint), and possibly a file that is no
\* fusion-data member.
DataNames == {MemberNames[i] : i \in 1..MaxMembers}
RangesOf(S) ==
    {r \in [S -> 1..MaxMembers] : \A m, n \in S : m # n => r[m] # r[n]}
ContentsOf(S) ==
    UNION {{c \in [S -> {Corrupt} \cup UNION {MemberTrees(b) : b \in 1..MaxMembers}] :
               \A n \in S : c[n] = Corrupt \/ c[n] \in MemberTrees(r[n])} :
           r \in RangesOf(S)}
Archives ==
    UNION {{c @@ other : c \in ContentsOf(S),
                         other \in {<<>>, "notes.txt" :> Corrupt}} :
           S \in SUBSET DataNames}

InitZip ==
    /\ pc = "zip_open"
    /\ archive \in Archives
    /\ tempdir = FALSE /\ filenames = <<>>
    /\ dt_list = <<>> /\ dt = None /\ nmerged = 0
    /\ nb_header_lines = 0 /\ header = <<>> /\ mtime = 0
    /\ IdleData /\ IdleMerge /\ IdleAux

\* zip.py:63-67: the temporary directory is made, the archive unpacked
\* into it and its fusion-data files listed.
ZipOpen ==
    /\ pc = "zip_open"
    /\ tempdir' = TRUE
    /\ filenames' = sorted_filenames(archive)
    /\ pc' = "zip_parse"
    /\ UNCHANGED <<err, archive, dt_list, dt, nmerged, mptvars, hdrvars, mergevars, auxvars>>

\* zip.py:68-71: extract_json on the next file; its exception leaves the
\* with block, which removes the directory.
ZipParse ==
    /\ pc = "zip_parse" /\ Len(dt_list) < Len(filenames)
    /\ LET fdt == archive[filenames[Len(dt_list) + 1]]
       IN  IF fdt = Corrupt
           THEN /\ pc' = "raised" /\ err' = "extract_json raised"
                /\ tempdir' = with_exit(tempdir, TRUE)
                /\ UNCHANGED dt_list
           ELSE /\ dt_list' = Append(dt_list, fdt)
                /\ UNCHANGED <<pc, err, tempdir>>
    /\ UNCHANGED <<archive, filenames, dt, nmerged, mptvars, hdrvars, mergevars, auxvars>>

\* zip.py:73: reduce starts with the first tree; an empty list is a
\* TypeError.
ZipReduceFirst ==
    /\ pc = "zip_parse" /\ Len(dt_list) = Len(filenames)
    /\ IF dt_list = <<>>
       THEN /\ pc' = "raised" /\ err' = "TypeError"
            /\ tempdir' = with_exit(tempdir, TRUE)
            /\ UNCHANGED <<dt, nmerged>>
       ELSE /\ dt' = dt_list[1] /\ nmerged' = 1
            /\ pc' = "zip_merge"
            /\ UNCHANGED <<err, tempdir>>
    /\ UNCHANGED <<archive, filenames, dt_list, mptvars, hdrvars, mergevars, auxvars>>

\* zip.py:73: one call of merge_datatrees by reduce. The accumulator is
\* the object dt_list[0], which the call writes through.
ZipReduceNext ==
    /\ pc = "zip_merge" /\ nmerged < Len(dt_list)
    /\ LET r == merge_datatrees(dt, dt_list[nmerged + 1])
       IN  IF r.ok
           THEN /\ dt' = r.tree /\ nmerged' = nmerged + 1
                /\ dt_list' = [dt_list EXCEPT ![1] = left_after(dt_list[1], r.tree)]
                /\ UNCHANGED <<pc, err, tempdir>>
           ELSE /\ pc' = "raised" /\ err' = "RuntimeError"
                /\ tempdir' = with_exit(tempdir, TRUE)
                /\ UNCHANGED <<dt, nmerged, dt_list>>
    /\ UNCHANGED <<archive, filenames, mptvars, hdrvars, mergevars, auxvars>>

\* zip.py:74: return dt, leaving the with block.
ZipReturn ==
    /\ pc = "zip_merge" /\ nmerged = Len(dt_list)
    /\ pc' = "done"
    /\ tempdir' = with_exit(tempdir, FALSE)
    /\ UNCHANGED <<err, archive, filenames, dt_list, dt, nmerged, mptvars,
                   hdrvars, mergevars, auxvars>>

NextZip == ZipOpen \/ ZipParse \/ ZipReduceFirst \/ ZipReduceNext \/ ZipReturn

SpecZip == InitZip /\ [][NextZip]_vars

---------------------------------------------------------------------------
(* Properties of the zip extractor, checked under SpecZip.                 *)

\* The trees extract_json made of the members folded so far, in
\* member-name order.
Folded == [i \in 1..nmerged |-> archive[filenames[i]]]

\* The time axes, in member-name order, of the members folded so far that
\* hold row data at the root, and at the child TCD.
RECURSIVE FlattenUts(_)
FlattenUts(ss) == IF ss = <<>> THEN <<>> ELSE Head(ss) \o FlattenUts(Tail(ss))
RootAxes ==
    LET have == SelectSeq(Folded, LAMBDA t : t.ds # None)
    IN  [i \in 1..Len(have) |-> have[i].ds.uts]
ChildAxes(c) ==
    LET have == SelectSeq(Folded, LAMBDA t : c \in DOMAIN t.children)
    IN  [i \in 1..Len(have) |-> have[i].children[c].ds.uts]
Ascending(s) == \A i \in 1..(Len(s) - 1) : s[i] <= s[i + 1]
\* The time ranges ascend with the member names.
RangesAscend(axes) ==
    \A i \in 1..(Len(axes) - 1) : axes[i][Len(axes[i])] < axes[i + 1][1]

\* C10 as stated: whatever time range each member name has, the merged
\* uts axis of every node is sorted ascending.
C10_Original ==
    pc = "done" =>
        /\ dt.ds # None => Ascending(dt.ds.uts)
        /\ \A c \in DOMAIN dt.children : Ascending(dt.children[c].ds.uts)

\* C10 as amended: when the merge does not raise, every node's dataset
\* has as many rows as the members have together at that node, and its
\* uts axis is the members' axes one after the other in member-name
\* order: it is sorted ascending exactly when the time ranges ascend with
\* the member names.
C10_ConcatInNameOrder ==
    pc \in {"zip_merge", "done"} =>
        /\ dt.ds # None =>
               /\ dt.ds.uts = FlattenUts(RootAxes)
               /\ Ascending(dt.ds.uts) <=> RangesAscend(RootAxes)
        /\ dt.ds = None => RootAxes = <<>>
        /\ \A c \in DOMAIN dt.children :
               /\ dt.children[c].ds.uts = FlattenUts(ChildAxes(c))
               /\ Ascending(dt.children[c].ds.uts) <=> RangesAscend(ChildAxes(c))

\* Two members were merged whose later time range has the earlier name.
C10_Witness ==
    /\ pc = "done" /\ nmerged = 2
    /\ dt.ds # None /\ Len(dt.ds.uts) = 4 /\ ~Ascending(dt.ds.uts)

---------------------------------------------------------------------------
(* merge_datatrees on its own, over pairs of trees.                        *)

\* Row data of the operands: DataA and DataB have the same time axis and
\* different values of signal, DataC has later rows.
DataA == Data(1, 0)
DataB == Data(1, 1)
DataC == Data(2, 0)
RootData == {None, DataA, DataB, DataC}
RootAttrs ==
    {<<>>, "method" :> "m1", ("method" :> "m2") @@ ("user" :> "u1")}
Leaf(d) == Node(d, <<>>, NoChildren)
GrandPool == {Leaf(DataA), Leaf(DataC)}
TCDPool ==
    {Node(d, <<>>, g) :
        d \in {DataA, DataC},
        g \in {NoChildren} \cup {"raw" :> x : x \in GrandPool}}
FIDPool == {Leaf(DataA), Leaf(DataB)}
ChildMaps ==
    {NoChildren} \cup {"TCD" :> x : x \in TCDPool}
                 \cup {"FID" :> y : y \in FIDPool}
                 \cup {("TCD" :> x) @@ ("FID" :> y) :
                          x \in TCDPool, y \in FIDPool}
TreePool ==
    {Node(d, a, ch) : d \in RootData, a \in RootAttrs, ch \in ChildMaps}

InitMerge ==
    /\ pc = "merge_call"
    /\ args \in TreePool \X TreePool
    /\ heap = args
    /\ ret = None
    /\ nb_header_lines = 0 /\ header = <<>> /\ mtime = 0
    /\ IdleData /\ IdleZip /\ IdleAux

\* merge_datatrees(dt1, dt2) returning: heap[1] and heap[2] are the
\* objects dt1 and dt2.
MergeReturns ==
    /\ pc = "merge_call" /\ merge_datatrees(heap[1], heap[2]).ok
    /\ LET r == merge_datatrees(heap[1], heap[2])
       IN  /\ heap' = <<left_after(heap[1], r.tree), heap[2]>>
           /\ ret' = r.tree
    /\ pc' = "merged"
    /\ UNCHANGED <<err, args, mptvars, hdrvars, zipvars, auxvars>>

\* merge_datatrees(dt1, dt2) raising RuntimeError from the MergeError
\* of xr.concat, which is raised before dt1.ds is assigned.
MergeRaises ==
    /\ pc = "merge_call" /\ ~merge_datatrees(heap[1], heap[2]).ok
    /\ pc' = "raised"
    /\ err' = "RuntimeError"
    /\ UNCHANGED <<args, heap, ret, mptvars, hdrvars, zipvars, auxvars>>

NextMerge == MergeReturns \/ MergeRaises

SpecMerge == InitMerge /\ [][NextMerge]_vars

---------------------------------------------------------------------------
(* Properties of merge_datatrees, checked under SpecMerge.                 *)

Called == pc \in {"merged", "raised"}
BothData == args[1].ds # None /\ args[2].ds # None

\* Both operands hold the data variable signal, with different values.
SignalConflict == BothData /\ args[1].ds.signal # args[2].ds.signal

C12_OneSideData ==
    (Called /\ ~BothData) =>
        /\ pc = "merged"
        /\ (args[1].ds = None /\ args[2].ds # None) => ret.ds = args[2].ds
        /\ (args[1].ds # None /\ args[2].ds = None) => ret.ds = args[1].ds
        /\ (args[1].ds = None /\ args[2].ds = None) => ret.ds = None

\* A left operand without row data was merged with a right operand that
\* holds some.
C12_Witness ==
    /\ pc = "merged"
    /\ args[1].ds = None /\ args[2].ds = DataC
    /\ ret.ds = DataC

\* r is the merge of the nodes a and b: its data is the data of both, the
\* left rows first, or of the one side that has some; its attributes are
\* those of b over those of a; its children are ChildrenMerged.
RECURSIVE MergedOf(_, _, _)
MergedOf(r, a, b) ==
    /\ r.ds = IF a.ds # None /\ b.ds # None
              THEN [uts |-> a.ds.uts \o b.ds.uts,
                    signal |-> a.ds.signal \o b.ds.signal]
              ELSE IF a.ds = None THEN b.ds ELSE a.ds
    /\ r.attrs = b.attrs @@ a.attrs
    /\ DOMAIN r.children = DOMAIN a.children \cup DOMAIN b.children
    /\ \A k \in DOMAIN r.children :
           IF k \in DOMAIN a.children /\ k \in DOMAIN b.children
           THEN MergedOf(r.children[k], a.children[k], b.children[k])
           ELSE IF k \in DOMAIN a.children
           THEN r.children[k] = a.children[k]
           ELSE r.children[k] = b.children[k]

\* The children of r are the union, by name, of the children of a and of
\* b: a shared name holds the merge of the two children, any other name
\* the one child as it was.
ChildrenMerged(r, a, b) ==
    /\ DOMAIN r.children = DOMAIN a.children \cup DOMAIN b.children
    /\ \A k \in DOMAIN r.children :
           IF k \in DOMAIN a.children /\ k \in DOMAIN b.children
           THEN MergedOf(r.children[k], a.children[k], b.children[k])
           ELSE IF k \in DOMAIN a.children
           THEN r.children[k] = a.children[k]
           ELSE r.children[k] = b.children[k]

\* C13: the children of the returned tree are exactly the union of the
\* child names of dt1 and dt2; a name on both sides holds the recursive
\* merge of the two children, a name on one side holds that side's child
\* as it was, at every depth.
C13_ChildrenUnion ==
    pc = "merged" => ChildrenMerged(ret, args[1], args[2])

\* Merged: a left operand with the children TCD and FID and a right
\* operand with TCD only, where only the right TCD has the child raw and
\* the two TCD hold different data.
C13_Witness ==
    /\ pc = "merged"
    /\ DOMAIN args[1].children = {"TCD", "FID"}
    /\ DOMAIN args[2].children = {"TCD"}
    /\ args[1].children["TCD"].children = NoChildren
    /\ DOMAIN args[2].children["TCD"].children = {"raw"}
    /\ args[1].children["TCD"].ds # args[2].children["TCD"].ds
    /\ DOMAIN ret.children["TCD"].children = {"raw"}

\* The attributes of r are those of a and b, last writer wins per key.
LastWriterWins(r, a, b) ==
    /\ DOMAIN r = DOMAIN a \cup DOMAIN b
    /\ \A k \in DOMAIN r : r[k] = IF k \in DOMAIN b THEN b[k] ELSE a[k]

\* C14 as stated: the merge succeeds for every pair of operands and the
\* merged attributes are last-writer-wins per key.
C14_Original ==
    Called =>
        pc = "merged" /\ LastWriterWins(ret.attrs, args[1].attrs, args[2].attrs)

\* C14 as amended: when the merge returns, the merged node's attributes
\* are last-writer-wins per key; when both operands hold row data and
\* their attributes differ the merge raises RuntimeError instead, returns
\* nothing and leaves the left operand's attributes as they were, so
\* with row data on both sides the update never changes a value.
C14_LastWriterWins ==
    /\ pc = "merged" =>
           /\ LastWriterWins(ret.attrs, args[1].attrs, args[2].attrs)
           /\ BothData => ret.attrs = args[1].attrs
    /\ (Called /\ BothData /\ args[1].attrs # args[2].attrs) =>
           /\ pc = "raised" /\ err = "RuntimeError" /\ ret = None
           /\ heap[1].attrs = args[1].attrs

\* Merged: operands that disagree on the key method, the right one
\* having a key of its own as well.
C14_Witness ==
    /\ pc = "merged"
    /\ args[1].attrs = ("method" :> "m1")
    /\ DOMAIN args[2].attrs = {"method", "user"}
    /\ ret.attrs["method"] = "m2"

---------------------------------------------------------------------------
(* Properties of the zip extract's exit paths, checked under SpecZip.      *)

\* A fusion-data member of the archive that extract_json fails on.
SomeMemberFails ==
    \E n \in DOMAIN archive : ends_with_fusion_data(n) /\ archive[n] = Corrupt

\* What extract hands to its caller: the tree on return, nothing before
\* that or when it raised.
Returned == IF pc = "done" THEN dt ELSE None

\* C16: the temporary directory exists while members are parsed and
\* merged and is removed on every exit, by return or by exception (a
\* member's extraction raising, the merge raising, no fusion-data member
\* at all); when a member fails, extract raises and returns no tree.
C16_TempdirRemoved ==
    /\ pc \in {"zip_parse", "zip_merge"} => tempdir
    /\ pc \in {"done", "raised"} => ~tempdir
    /\ pc = "raised" =>
           /\ err \in {"extract_json raised", "RuntimeError", "TypeError"}
           /\ Returned = None
    /\ SomeMemberFails => pc # "done" /\ Returned = None
    /\ (pc = "raised" /\ err = "TypeError") => filenames = <<>>
    /\ pc = "done" => Len(dt_list) = Len(filenames) /\ nmerged = Len(dt_list)

\* The second member failed after the first one was parsed, and the
\* directory is gone.
C16_Witness ==
    /\ pc = "raised" /\ err = "extract_json raised"
    /\ Len(dt_list) = 1 /\ Len(filenames) = 2
    /\ ~tempdir

---------------------------------------------------------------------------
(* The tolerance model of the CSV extractor, as the specification gives    *)
(* it and as tests/test_basiccsv.py pins it. Values, tolerances and        *)
(* sigmas are in thousandths: 15.0 is 15000, rtol 0.1 is 100. A tolerance  *)
(* is None when it is not given, else a float.                             *)

Max(a, b) == IF a < b THEN b ELSE a
Abs(x) == IF x < 0 THEN 0 - x ELSE x

\* effective_tol with the global tolerance taking precedence.
effective_tol_global_first(own, global) ==
    IF global # None THEN global.v ELSE IF own # None THEN own.v ELSE 0

\* The tolerance in force for a column: its own when given, else the
\* global one, else 0.
effective_tol(own, global) ==
    IF own # None THEN own.v ELSE IF global # None THEN global.v ELSE 0

\* sigma = max(atol, rtol * |value|)
sigma_from_tols(c) ==
    PyFloat(Max(effective_tol(c.atol, c.global_atol),
                (effective_tol(c.rtol, c.global_rtol) * Abs(c.value))
                    \div 1000))

TolCase(v, a, r, ga, gr) ==
    [value |-> v, atol |-> a, rtol |-> r, global_atol |-> ga,
     global_rtol |-> gr]

\* The cases of test_datagram_from_basiccsv that fix a sigma: the inputs
\* and the sigma the test expects.
TestVectors ==
    {[case |-> TolCase(15000, None, None, None, None), sigma |-> 0],
     [case |-> TolCase(15000, None, PyFloat(100), None, None),
      sigma |-> 1500],
     [case |-> TolCase(23100, None, None, None, None), sigma |-> 0],
     [case |-> TolCase(351200, PyFloat(50), None, None, None),
      sigma |-> 50],
     [case |-> TolCase(23100, None, None, PyFloat(100), None),
      sigma |-> 100],
     [case |-> TolCase(296250, PyFloat(500), None, PyFloat(100), None),
      sigma |-> 500]}

ValuePool == {0, 15000, 0 - 15000, 23100, 351200, 296250}
AtolPool == {None, PyFloat(50), PyFloat(500)}
RtolPool == {None, PyFloat(100)}
GlobalAtolPool == {None, PyFloat(100)}
GlobalRtolPool == {None, PyFloat(10)}
TolCases ==
    {TolCase(v, a, r, ga, gr) :
        v \in ValuePool, a \in AtolPool, r \in RtolPool,
        ga \in GlobalAtolPool, gr \in GlobalRtolPool}

InitTols ==
    /\ pc = "tols"
    /\ tolcase \in TolCases
    /\ sigma = None
    /\ folder = <<>> /\ preset = None /\ schema = None /\ nsteps = 0
    /\ nb_header_lines = 0 /\ header = <<>> /\ mtime = 0
    /\ IdleData /\ IdleZip /\ IdleMerge

ComputeSigma ==
    /\ pc = "tols"
    /\ sigma' = sigma_from_tols(tolcase)
    /\ pc' = "sigma"
    /\ UNCHANGED <<err, tolcase, folder, preset, schema, nsteps, mptvars,
                   hdrvars, zipvars, mergevars>>

NextTols == ComputeSigma

SpecTols == InitTols /\ [][NextTols]_vars

\* C17: the sigma of a value is max(atol, rtol * |value|), a tolerance
\* the column does not give being the global one and 0 without a global
\* one, so that a column's own tolerance takes precedence; and on the
\* inputs of the tests it is the sigma the tests expect (1.5 for rtol 0.1
\* on 15.0, 0.05 for atol 0.05, 0.0 without any tolerance, 0.5 for a
\* column atol 0.5 under a global atol 0.1).
C17_SigmaFromTolerances ==
    pc = "sigma" =>
        LET c == tolcase
            atol == IF c.atol # None THEN c.atol.v
                    ELSE IF c.global_atol # None THEN c.global_atol.v ELSE 0
            rtol == IF c.rtol # None THEN c.rtol.v
                    ELSE IF c.global_rtol # None THEN c.global_rtol.v ELSE 0
            rel == (rtol * Abs(c.value)) \div 1000
        IN  /\ sigma.v >= 0
            /\ sigma.v >= atol /\ sigma.v >= rel
            /\ sigma.v = atol \/ sigma.v = rel
            /\ \A tv \in TestVectors : tv.case = c => sigma.v = tv.sigma

\* The sigma of the test's converted column was computed: its own atol
\* 0.5 under the global atol 0.1.
C17_Witness ==
    /\ pc = "sigma"
    /\ tolcase = TolCase(296250, PyFloat(500), None, PyFloat(100), None)
    /\ sigma = PyFloat(500)

---------------------------------------------------------------------------
(* schema_from_preset, dgutils/utils.py:145-196. A path is a sequence of   *)
(* characters. A step is [inpk, filk, items, calfile, extfile]: the keys   *)
(* its file list is found under, the list, and the calfile and the         *)
(* externaldate file path, each None when the step has no such key.        *)

MaxSteps == 2     \* steps of a preset
MaxItems == 2     \* items of a step's files or folders list

\* os.path.isabs and oldf.startswith("." + os.path.sep), on posix.
isabs(p) == p # <<>> /\ p[1] = "/"
starts_with_dot_sep(p) == Len(p) >= 2 /\ p[1] = "." /\ p[2] = "/"

\* os.path.join(folder, oldf) and os.path.abspath of the result; cwd is
\* the working directory. The paths of the pools hold no ".", ".." or
\* empty segment, which abspath would remove.
cwd == <<"/", "w">>
join(a, b) ==
    IF isabs(b) THEN b
    ELSE IF a = <<>> \/ a[Len(a)] = "/" THEN a \o b
    ELSE a \o <<"/">> \o b
abspath(p) == IF isabs(p) THEN p ELSE join(cwd, p)

\* utils.py:156-171: the new list of a step. An absolute item is logged
\* and not appended.
RECURSIVE patch_items(_, _)
patch_items(fld, items) ==
    IF items = <<>> THEN <<>>
    ELSE (IF isabs(Head(items)) THEN <<>>
          ELSE <<abspath(join(fld, Head(items)))>>)
         \o patch_items(fld, Tail(items))

\* The assert of utils.py:165 fails on some item.
items_assert_fails(items) ==
    \E i \in 1..Len(items) :
        ~isabs(items[i]) /\ starts_with_dot_sep(items[i])

\* utils.py:172-195: calfile and the externaldate file path are replaced
\* when relative and left alone when absolute or missing.
patch_path(fld, f) ==
    IF f = None THEN None
    ELSE IF isabs(f.v) THEN f
    ELSE PyStr(abspath(join(fld, f.v)))

\* The body of the loop over preset["steps"].
patch_step(fld, step) ==
    [step EXCEPT !.items = patch_items(fld, step.items),
                 !.calfile = patch_path(fld, step.calfile),
                 !.extfile = patch_path(fld, step.extfile)]

\* utils.py:146-152
patch_provenance(prov) ==
    IF prov.t = "str" THEN PyStr("yadg preset")
    ELSE IF prov.t = "dict"
    THEN [t |-> "dict", type |-> "yadg preset", preset_provenance |-> prov]
    ELSE prov

AbsItem == <<"/", "a">>
RelItem == <<"b">>
DotItem == <<".", "/", "c">>
ItemPool == {AbsItem, RelItem, DotItem}
ItemLists == UNION {[1..n -> ItemPool] : n \in 0..MaxItems}
FilesStep(items) ==
    [inpk |-> "input", filk |-> "files", items |-> items,
     calfile |-> None, extfile |-> None]
OtherSteps ==
    {[inpk |-> "import", filk |-> "folders", items |-> <<RelItem>>,
      calfile |-> c, extfile |-> e] :
        c \in {None, PyStr(AbsItem), PyStr(RelItem)},
        e \in {None, PyStr(RelItem)}}
StepPool == {FilesStep(items) : items \in ItemLists} \cup OtherSteps
ProvenancePool ==
    {PyStr("user"), [t |-> "dict", type |-> "manual"], None}
FolderPool == {<<"/", "d">>, <<"d">>}
Presets ==
    {[provenance |-> pv, steps |-> ss] :
        pv \in ProvenancePool,
        ss \in UNION {[1..n -> StepPool] : n \in 0..MaxSteps}}

InitPreset ==
    /\ pc = "preset_call"
    /\ folder \in FolderPool
    /\ preset \in Presets
    /\ schema = preset
    /\ nsteps = 0
    /\ tolcase = None /\ sigma = None
    /\ nb_header_lines = 0 /\ header = <<>> /\ mtime = 0
    /\ IdleData /\ IdleZip /\ IdleMerge

\* utils.py:146-152
PatchProvenance ==
    /\ pc = "preset_call"
    /\ schema' = [schema EXCEPT !.provenance = patch_provenance(@)]
    /\ pc' = "preset_steps"
    /\ UNCHANGED <<err, tolcase, sigma, folder, preset, nsteps, mptvars,
                   hdrvars, zipvars, mergevars>>

\* utils.py:153-195: one step of the loop.
PatchStep ==
    /\ pc = "preset_steps" /\ nsteps < Len(schema.steps)
    /\ LET step == schema.steps[nsteps + 1]
       IN  IF items_assert_fails(step.items)
           THEN /\ pc' = "raised" /\ err' = "AssertionError"
                /\ UNCHANGED <<schema, nsteps>>
           ELSE /\ schema' = [schema EXCEPT
                                 !.steps[nsteps + 1] = patch_step(folder, step)]
                /\ nsteps' = nsteps + 1
                /\ UNCHANGED <<pc, err>>
    /\ UNCHANGED <<tolcase, sigma, folder, preset, mptvars, hdrvars, zipvars,
                   mergevars>>

\* utils.py:196
PresetReturn ==
    /\ pc = "preset_steps" /\ nsteps = Len(schema.steps)
    /\ pc' = "done"
    /\ UNCHANGED <<err, tolcase, sigma, folder, preset, schema, nsteps,
                   mptvars, hdrvars, zipvars, mergevars>>

NextPreset == PatchProvenance \/ PatchStep \/ PresetReturn

SpecPreset == InitPreset /\ [][NextPreset]_vars

\* C18 as stated: schema_from_preset keeps every item of every step's
\* list: the returned list has the length and order of the input list,
\* an absolute item unchanged and a relative item replaced by the
\* absolute path of folder joined with it.
C18_Original ==
    pc = "done" =>
        \A s \in 1..Len(preset.steps) :
            LET old == preset.steps[s].items
                new == schema.steps[s].items
            IN  /\ Len(new) = Len(old)
                /\ \A i \in 1..Len(old) :
                       new[i] = IF isabs(old[i]) THEN old[i]
                                ELSE abspath(join(folder, old[i]))

---------------------------------------------------------------------------
\* C19 as stated: in a file whose column line holds "control/V/mA", every
\* assembled row stores the value under control_<m>, m being the control
\* mode of the row's sequence Ns, with unit mA when m is I or C and V
\* otherwise, and no row keeps it under the combined name control_VI.
C19_Original ==
    \A i \in 1..Len(names) :
        names[i] = "control/V/mA" =>
            \A r \in 1..Len(allvals) :
                LET icv == Index(ctrls, allvals[r]["Ns"].v)
                    name == control_name(icv)
                IN  /\ "control_VI" \notin DOMAIN allvals[r]
                    /\ "Ns" \in DOMAIN allvals[r]
                    /\ name \in DOMAIN allvals[r]
                    /\ units[name] =
                           IF is_current_control(icv) THEN "mA" ELSE "V"
====
